---- MODULE Spec2Model ----
(***************************************************************************)
(* Daily planner (src/src/DailyPlanner.jsx): 48 half-hour slots, tasks and  *)
(* notes of one day, the coverage index and the statistics derived from    *)
(* the tasks, and the per-date record kept in localStorage.                 *)
(* The definitions ending in 000 are those of the variant                  *)
(* src/unnamed/part_000, whose addTask and addNote differ.                 *)
(*                                                                         *)
(* Strings that the code parses or formats (times, titles) are sequences   *)
(* of one-character strings, so that split, Number, String, padStart and   *)
(* trim are computed.  A JavaScript number is <<n>> for the integer n and   *)
(* <<>> for NaN.  A JavaScript object is a record; null and numbers read   *)
(* from storage are records with a "type" field.                           *)
(***************************************************************************)
EXTENDS Integers, Sequences, FiniteSets, TLC

VARIABLES date, data, pending, loadPending, savePending, store, crashed,
          coverage, stats, showModal, inlineEdit, priorityFilter,
          switched, clock

\* clock is the environment at startup: the instant that new Date() gives,
\* as a day of January 2025 and a minute of that day, both in UTC, and the
\* offset in minutes of the user's local time from UTC.
\* switched is a history variable: from the mount or a change of the
\* selected date until the next user action it holds the date left, the
\* record that was in memory and the item that was stored under the date
\* entered

dayVars == <<date, data, pending, loadPending, savePending, store, crashed>>
memoVars == <<coverage, stats>>
uiVars == <<showModal, inlineEdit, priorityFilter>>
vars == <<date, data, pending, loadPending, savePending, store, crashed,
          coverage, stats, showModal, inlineEdit, priorityFilter, switched,
          clock>>

(***************************************************************************)
(* JavaScript numbers and strings                                          *)
(***************************************************************************)
NaN == <<>>
Num(n) == <<n>>
IsNaN(x) == x = <<>>
Val(x) == x[1]

Min(a, b) == IF a <= b THEN a ELSE b
Max(a, b) == IF a >= b THEN a ELSE b

\* x * k and x + y, NaN if an operand is NaN
JsMul(x, k) == IF IsNaN(x) THEN NaN ELSE Num(Val(x) * k)
JsAdd(x, y) == IF IsNaN(x) \/ IsNaN(y) THEN NaN ELSE Num(Val(x) + Val(y))
JsSub(x, y) == IF IsNaN(x) \/ IsNaN(y) THEN NaN ELSE Num(Val(x) - Val(y))
\* comparisons with NaN are false
JsGe(x, y) == ~IsNaN(x) /\ ~IsNaN(y) /\ Val(x) >= Val(y)
JsLe(x, y) == ~IsNaN(x) /\ ~IsNaN(y) /\ Val(x) <= Val(y)
JsLt(x, y) == ~IsNaN(x) /\ ~IsNaN(y) /\ Val(x) < Val(y)
JsGt(x, y) == ~IsNaN(x) /\ ~IsNaN(y) /\ Val(x) > Val(y)
\* the second argument, whatever the first
MathMaxSecond(x, y) == y

\* Math.max and Math.min return NaN if an argument is NaN
MathMax(x, y) == IF IsNaN(x) \/ IsNaN(y) THEN NaN ELSE Num(Max(Val(x), Val(y)))
MathMin(x, y) == IF IsNaN(x) \/ IsNaN(y) THEN NaN ELSE Num(Min(Val(x), Val(y)))

DigitChars == <<"0", "1", "2", "3", "4", "5", "6", "7", "8", "9">>
IsDigit(c) == \E i \in 1..10 : DigitChars[i] = c
DigitVal(c) == (CHOOSE i \in 1..10 : DigitChars[i] = c) - 1

AllDigits(s) == Len(s) > 0 /\ \A i \in 1..Len(s) : IsDigit(s[i])

RECURSIVE DecVal(_)
DecVal(s) ==
  IF s = <<>> THEN 0 ELSE 10 * DecVal(SubSeq(s, 1, Len(s) - 1)) + DigitVal(s[Len(s)])

\* String.prototype.trim
RECURSIVE TrimStart(_)
TrimStart(s) == IF s # <<>> /\ Head(s) = " " THEN TrimStart(Tail(s)) ELSE s
RECURSIVE TrimEnd(_)
TrimEnd(s) ==
  IF s # <<>> /\ s[Len(s)] = " " THEN TrimEnd(SubSeq(s, 1, Len(s) - 1)) ELSE s
Trim(s) == TrimEnd(TrimStart(s))

\* the value of a missing array element
Undefined == <<"undefined">>

\* Number(s) for s a string of digits, signs, blanks and other characters
\* (no ".", "e", "x"): the empty string is 0, a signed run of digits is its
\* value, anything else and undefined are NaN
Number(s) ==
  IF s = Undefined THEN NaN
  ELSE LET t == Trim(s) IN
    IF t = <<>> THEN Num(0)
    ELSE IF Head(t) = "-" THEN (IF AllDigits(Tail(t)) THEN Num(0 - DecVal(Tail(t))) ELSE NaN)
    ELSE IF Head(t) = "+" THEN (IF AllDigits(Tail(t)) THEN Num(DecVal(Tail(t))) ELSE NaN)
    ELSE IF AllDigits(t) THEN Num(DecVal(t))
    ELSE NaN

\* String(n) for a natural number
RECURSIVE NatStr(_)
NatStr(n) ==
  IF n < 10 THEN <<DigitChars[n + 1]>>
  ELSE NatStr(n \div 10) \o <<DigitChars[(n % 10) + 1]>>

\* String(x) for a JavaScript number
String(x) ==
  IF IsNaN(x) THEN <<"N", "a", "N">>
  ELSE IF Val(x) < 0 THEN <<"-">> \o NatStr(0 - Val(x))
  ELSE NatStr(Val(x))

\* s.padStart(2, "0")
PadStart2(s) ==
  IF Len(s) >= 2 THEN s ELSE IF Len(s) = 1 THEN <<"0">> \o s ELSE <<"0", "0">>

\* t.split(":"): the pieces between the colons ("" gives one empty piece)
RECURSIVE SplitColon(_, _)
SplitColon(s, cur) ==
  IF s = <<>> THEN <<cur>>
  ELSE IF Head(s) = ":" THEN <<cur>> \o SplitColon(Tail(s), <<>>)
  ELSE SplitColon(Tail(s), Append(cur, Head(s)))

\* const [h, m] = t.split(":").map(Number)
At(parts, i) == IF i <= Len(parts) THEN parts[i] ELSE Undefined
ParseHM(t) ==
  LET parts == SplitColon(t, <<>>) IN
  [h |-> Number(At(parts, 1)), m |-> Number(At(parts, 2))]

Colon == <<":">>

(***************************************************************************)
(* Constants and helpers                                                   *)
(***************************************************************************)
DAY_MIN == 24 * 60
NumSlots == 48
SlotMin == 30

PRIORITIES == <<"urgent", "high", "normal", "low">>
PrioritySet == {PRIORITIES[i] : i \in 1..Len(PRIORITIES)}

\* SLOT_TIMES[i + 1] is the code's SLOT_TIMES[i], i = 0..47
\* the index used as it is where the code uses i from 0
SLOT_TIMESFromOne ==
  [i \in 1..NumSlots |->
     PadStart2(String(Num(i \div 2))) \o Colon \o
     (IF i % 2 = 0 THEN <<"0", "0">> ELSE <<"3", "0">>)]

SLOT_TIMES ==
  [i \in 1..NumSlots |->
     PadStart2(String(Num((i - 1) \div 2))) \o Colon \o
     (IF (i - 1) % 2 = 0 THEN <<"0", "0">> ELSE <<"3", "0">>)]
SlotSet == {SLOT_TIMES[i] : i \in 1..NumSlots}

\* the body of toMinutes
parseMinutes(t) ==
  LET p == ParseHM(t) IN JsAdd(JsMul(p.h, 60), p.m)

\* toMinutes is pure: its value on the 48 slot strings is computed once
SlotMinutes == [t \in SlotSet |-> parseMinutes(t)]

toMinutes(t) == IF t \in SlotSet THEN SlotMinutes[t] ELSE parseMinutes(t)

\* the hour taken as entered
clampTimeToSlotsHourKept(t) ==
  LET p == ParseHM(t)
      m == IF JsGe(p.m, Num(30)) THEN Num(30) ELSE Num(0)
  IN PadStart2(String(p.h)) \o Colon \o PadStart2(String(m))

clampTimeToSlots(t) ==
  LET p == ParseHM(t)
      m == IF JsGe(p.m, Num(30)) THEN Num(30) ELSE Num(0)
      h == MathMax(Num(0), MathMin(Num(23), p.h))
  IN IF h = Num(23) /\ m = Num(30) THEN <<"2", "3", ":", "3", "0">>
     ELSE PadStart2(String(h)) \o Colon \o PadStart2(String(m))

\* the end taken as exclusive
betweenEndExclusive(t, start, end) ==
  LET tm == toMinutes(t) IN JsGe(tm, toMinutes(start)) /\ JsLt(tm, toMinutes(end))

betweenInclusive(t, start, end) ==
  LET tm == toMinutes(t) IN JsGe(tm, toMinutes(start)) /\ JsLe(tm, toMinutes(end))

\* tasks.forEach(task => SLOT_TIMES.forEach(slot => {
\*   if (betweenInclusive(slot, task.start, task.end)) cover[slot].push(task.id) }))
\* leaves under each slot the ids of the tasks that pass the test, in the
\* order of the task list
\* a task listed under its start slot only
useCoverageStartOnly(tasks) ==
  [slot \in SlotSet |->
     LET hits == SelectSeq(tasks, LAMBDA task : toMinutes(slot) = toMinutes(task.start))
     IN [k \in 1..Len(hits) |-> hits[k].id]]

useCoverage(tasks) ==
  [slot \in SlotSet |->
     LET hits == SelectSeq(tasks, LAMBDA task : betweenInclusive(slot, task.start, task.end))
     IN [k \in 1..Len(hits) |-> hits[k].id]]

(***************************************************************************)
(* Statistics                                                              *)
(***************************************************************************)
\* the loop run up to and including e
loopMinutesInclusive(s, e) ==
  IF JsLe(s, e)
  THEN {Val(s) + SlotMin * k : k \in 0..((Val(e) - Val(s)) \div SlotMin)}
  ELSE {}

\* the values m takes in  for (let m = s; m < e; m += 30)
loopMinutes(s, e) ==
  IF JsLt(s, e)
  THEN {Val(s) + SlotMin * k : k \in 0..((Val(e) - Val(s) - 1) \div SlotMin)}
  ELSE {}

\* the loop run up to and including the end time
slotsOfTaskThroughEnd(task) ==
  {idx \in {m \div SlotMin : m \in loopMinutesInclusive(toMinutes(task.start), toMinutes(task.end))} :
     idx >= 0 /\ idx < NumSlots}

\* idx = Math.floor(m / 30); if (idx >= 0 && idx < 48) covered.add(idx)
slotsOfTask(task) ==
  {idx \in {m \div SlotMin : m \in loopMinutes(toMinutes(task.start), toMinutes(task.end))} :
     idx >= 0 /\ idx < NumSlots}

\* the Set started again for each task, so that the last task decides
coveredSlotsLastOnly(tasks) ==
  IF tasks = <<>> THEN {} ELSE slotsOfTask(tasks[Len(tasks)])

\* the Set filled by the forEach over the tasks
coveredSlots(tasks) == UNION {slotsOfTask(tasks[i]) : i \in 1..Len(tasks)}

\* no filter on the priority
IsPriorityAny(p, t) == TRUE

IsPriority(p, t) == t.priority = p

\* every task counted on its own
RECURSIVE scheduledMinAdditive(_)
scheduledMinAdditive(tasks) ==
  IF tasks = <<>> THEN 0
  ELSE Cardinality(slotsOfTask(Head(tasks))) * SlotMin + scheduledMinAdditive(Tail(tasks))

scheduledMinOf(tasks) == Cardinality(coveredSlots(tasks)) * SlotMin

freeMinOf(scheduledMin) == Max(0, DAY_MIN - scheduledMin)

\* the tasks of a priority counted each on its own
byPriorityOfAdditive(tasks) ==
  [p \in PrioritySet |->
     scheduledMinAdditive(SelectSeq(tasks, LAMBDA t : IsPriority(p, t)))]

byPriorityOf(tasks) ==
  [p \in PrioritySet |->
     Cardinality(coveredSlots(SelectSeq(tasks, LAMBDA t : IsPriority(p, t)))) * SlotMin]

\* the duration counted up to the end of the end slot
perTaskEntryEndSlot(t) ==
  [id |-> t.id, title |-> t.title, priority |-> t.priority, color |-> t.color,
   start |-> t.start, end |-> t.end,
   minutes |-> MathMax(Num(0), JsAdd(JsSub(toMinutes(t.end), toMinutes(t.start)), Num(SlotMin)))]

perTaskEntry(t) ==
  [id |-> t.id, title |-> t.title, priority |-> t.priority, color |-> t.color,
   start |-> t.start, end |-> t.end,
   minutes |-> MathMax(Num(0), JsSub(toMinutes(t.end), toMinutes(t.start)))]

\* no entry for a task that takes no time
perTaskOfTimed(tasks) ==
  LET timed == SelectSeq(tasks, LAMBDA t : JsLt(toMinutes(t.start), toMinutes(t.end)))
  IN [i \in 1..Len(timed) |-> perTaskEntry(timed[i])]

perTaskOf(tasks) == [i \in 1..Len(tasks) |-> perTaskEntry(tasks[i])]

\* (a, b) => toMinutes(a.start) - toMinutes(b.start)
byStart(a, b) == JsSub(toMinutes(a.start), toMinutes(b.start))

\* Array.prototype.sort is stable: x goes after every element that does not
\* compare greater than it (a NaN comparison counts as 0)
\* x put before the elements that compare equal to it
RECURSIVE InsertSortedBeforeEqual(_, _)
InsertSortedBeforeEqual(sorted, x) ==
  IF sorted # <<>> /\ JsGe(byStart(sorted[Len(sorted)], x), Num(0))
  THEN Append(InsertSortedBeforeEqual(SubSeq(sorted, 1, Len(sorted) - 1), x), sorted[Len(sorted)])
  ELSE Append(sorted, x)

RECURSIVE InsertSorted(_, _)
InsertSorted(sorted, x) ==
  IF sorted # <<>> /\ JsGt(byStart(sorted[Len(sorted)], x), Num(0))
  THEN Append(InsertSorted(SubSeq(sorted, 1, Len(sorted) - 1), x), sorted[Len(sorted)])
  ELSE Append(sorted, x)

RECURSIVE SortFrom(_, _)
SortFrom(rest, sorted) ==
  IF rest = <<>> THEN sorted ELSE SortFrom(Tail(rest), InsertSorted(sorted, Head(rest)))

sortByStart(list) == SortFrom(list, <<>>)

\* the value of the stats memo for the task list
statsMemo(tasks) ==
  LET scheduledMin == scheduledMinOf(tasks) IN
  [scheduledMin |-> scheduledMin,
   freeMin |-> freeMinOf(scheduledMin),
   byPriority |-> byPriorityOf(tasks),
   perTask |-> perTaskOf(tasks)]

\* the stats object once the durations card has been rendered: the card
\* sorts stats.perTask in place
statsRendered(tasks) ==
  LET st == statsMemo(tasks) IN [st EXCEPT !.perTask = sortByStart(st.perTask)]

(***************************************************************************)
(* Day records and localStorage                                            *)
(***************************************************************************)
EmptyDay == [tasks |-> <<>>, notes |-> <<>>]

\* values JSON.parse can return that are not day records
JsonNull == [type |-> "null"]
JsonNumber == [type |-> "number"]
JsonObject == [type |-> "object"]

\* reading data.tasks and data.notes yields arrays
IsDayShape(v) == {"tasks", "notes"} \subseteq DOMAIN v

\* what localStorage.getItem returns: null, the empty string, a text that
\* is not JSON, or the JSON text of a value
NoItem == [kind |-> "null"]
EmptyText == [kind |-> "empty"]
InvalidText == [kind |-> "invalid"]
JsonText(v) == [kind |-> "json", value |-> v]

\* if (raw)
Truthy(raw) == raw.kind \notin {"null", "empty"}

\* JSON.parse(raw): the value, or a thrown SyntaxError
JSONparse(raw) ==
  IF raw.kind = "json" THEN [ok |-> TRUE, value |-> raw.value] ELSE [ok |-> FALSE]

JSONstringify(v) == JsonText(v)

DateKeys == {"2025-01-01", "2025-01-02"}
Today == "2025-01-01"

\* the calendar dates around the two keys; DayTexts[d + 1] is the text of
\* day d, day 1 being the first of January 2025
DayTexts == <<"2024-12-31", "2025-01-01", "2025-01-02", "2025-01-03">>

\* new Date(d).toISOString().slice(0, 10): the date of the instant in UTC
dateKey(d) == DayTexts[d.day + 1]

\* noon UTC of the first day, read in UTC
StartClock == [day |-> 1, minute |-> 720, offset |-> 0]

NoUpdate == <<>>
NoSwitch == <<>>
Mount == "mount"
NoEdit == [open |-> FALSE]

\* no effect or state update is waiting and the tree is mounted
Idle == ~crashed /\ ~loadPending /\ ~savePending /\ pending = NoUpdate

\* the commit without the save effect
CommitUnsaved(d) ==
  /\ data' = d
  /\ pending' = NoUpdate
  /\ savePending' = FALSE
  /\ IF IsDayShape(d)
     THEN /\ coverage' = useCoverage(d.tasks)
          /\ stats' = statsRendered(d.tasks)
          /\ crashed' = FALSE
          /\ store' = store
     ELSE /\ UNCHANGED <<memoVars, store>>
          /\ crashed' = TRUE

\* React renders the component with d as the data state and runs the
\* effects of that commit: the memos are recomputed and, data being a new
\* object, the save effect writes it under the current key.  Reading
\* data.tasks or data.notes of a value of another shape throws during the
\* render, which unmounts the tree before any effect runs.
Commit(d) ==
  /\ data' = d
  /\ pending' = NoUpdate
  /\ savePending' = FALSE
  /\ IF IsDayShape(d)
     THEN /\ coverage' = useCoverage(d.tasks)
          /\ stats' = statsRendered(d.tasks)
          /\ crashed' = FALSE
          /\ store' = [store EXCEPT ![date] = JSONstringify(d)]
     ELSE /\ UNCHANGED <<memoVars, store>>
          /\ crashed' = TRUE

\* the load effect taking every stored item for an empty day
LoadEffectAlwaysEmpty ==
  /\ ~crashed /\ loadPending
  /\ pending' = <<EmptyDay>>
  /\ loadPending' = FALSE
  /\ UNCHANGED <<date, data, savePending, store, crashed, memoVars, uiVars, switched, clock>>

\* first effect of useDayData
LoadEffect ==
  /\ ~crashed /\ loadPending
  /\ LET raw == store[date]
         parsed == JSONparse(raw)
     IN pending' = IF Truthy(raw)
                   THEN (IF parsed.ok THEN <<parsed.value>> ELSE <<EmptyDay>>)
                   ELSE <<EmptyDay>>
  /\ loadPending' = FALSE
  /\ UNCHANGED <<date, data, savePending, store, crashed, memoVars, uiVars, switched, clock>>

\* second effect of useDayData when the key changed (mount, date switch);
\* it runs after the first one of the same commit, with the data of that
\* render
SaveEffect ==
  /\ ~crashed /\ ~loadPending /\ savePending
  /\ store' = [store EXCEPT ![date] = JSONstringify(data)]
  /\ savePending' = FALSE
  /\ UNCHANGED <<date, data, pending, loadPending, crashed, memoVars, uiVars, switched, clock>>

\* the re-render that the setData call of the load effect asks for
Render ==
  /\ ~crashed /\ ~loadPending /\ ~savePending /\ pending # NoUpdate
  /\ Commit(pending[1])
  /\ UNCHANGED <<date, loadPending, uiVars, switched, clock>>

\* the date changed without the load effect being queued
SetDateNoReload(k) ==
  /\ Idle /\ k # date
  /\ date' = k
  /\ savePending' = TRUE
  /\ switched' = <<[from |-> date, record |-> data, target |-> store[k]]>>
  /\ UNCHANGED clock
  /\ UNCHANGED <<data, pending, loadPending, store, crashed, memoVars, uiVars>>

\* onChange of the date input
SetDate(k) ==
  /\ Idle /\ k # date
  /\ date' = k
  /\ loadPending' = TRUE
  /\ savePending' = TRUE
  /\ switched' = <<[from |-> date, record |-> data, target |-> store[k]]>>
  /\ UNCHANGED clock
  /\ UNCHANGED <<data, pending, store, crashed, memoVars, uiVars>>

OpenModal ==
  /\ Idle /\ ~showModal
  /\ showModal' = TRUE
  /\ switched' = NoSwitch
  /\ UNCHANGED clock
  /\ UNCHANGED <<dayVars, memoVars, inlineEdit, priorityFilter>>

CloseModal ==
  /\ Idle /\ showModal
  /\ showModal' = FALSE
  /\ switched' = NoSwitch
  /\ UNCHANGED clock
  /\ UNCHANGED <<dayVars, memoVars, inlineEdit, priorityFilter>>

DefaultColor == "#c7d2fe"

\* x || dflt for a string x
OrElse(x, dflt) == IF x = "" THEN dflt ELSE x

\* the pair left as entered
sortPairUnsorted(a, b) == <<a, b>>

\* [a, b].sort((a, b) => a - b)
sortPair(a, b) == IF JsGt(JsSub(a, b), Num(0)) THEN <<b, a>> ELSE <<a, b>>

\* the two minute texts exchanged
encodeHMFlipped(s) ==
  PadStart2(String(IF IsNaN(s) THEN NaN ELSE Num(Val(s) \div 60))) \o Colon \o
  (IF ~IsNaN(s) /\ Val(s) % 60 = 30 THEN <<"0", "0">> ELSE <<"3", "0">>)

\* `${String(Math.floor(s / 60)).padStart(2, "0")}:${s % 60 === 30 ? "30" : "00"}`
encodeHM(s) ==
  PadStart2(String(IF IsNaN(s) THEN NaN ELSE Num(Val(s) \div 60))) \o Colon \o
  (IF ~IsNaN(s) /\ Val(s) % 60 = 30 THEN <<"3", "0">> ELSE <<"0", "0">>)

\* the record addTask builds from the draft
normalized(draft, id) ==
  LET start == clampTimeToSlots(draft.start)
      end == clampTimeToSlots(draft.end)
      se == sortPair(toMinutes(start), toMinutes(end))
  IN [id |-> id,
      title |-> Trim(draft.title),
      description |-> Trim(draft.description),
      start |-> encodeHM(se[1]),
      end |-> encodeHM(se[2]),
      color |-> OrElse(draft.color, DefaultColor),
      priority |-> OrElse(draft.priority, "normal")]

(***************************************************************************)
(* Handlers                                                                *)
(***************************************************************************)
\* the most items, tasks and notes together, that the handlers let a day hold
MaxTasks == 2

DayFull == Len(data.tasks) + Len(data.notes) >= MaxTasks

taskVisible(task) == priorityFilter = "all" \/ task.priority = priorityFilter

\* data.tasks.find((x) => x.id === id), as a list of zero or one task
findTask(tasks, id) ==
  IF \E i \in 1..Len(tasks) : tasks[i].id = id
  THEN <<tasks[CHOOSE i \in 1..Len(tasks) :
                 tasks[i].id = id /\ \A j \in 1..(i - 1) : tasks[j].id # id]>>
  ELSE <<>>

RECURSIVE FlatMapFind(_, _)
FlatMapFind(ids, tasks) ==
  IF ids = <<>> THEN <<>> ELSE findTask(tasks, Head(ids)) \o FlatMapFind(Tail(ids), tasks)

\* coverage[t].map(find).filter(Boolean).filter(taskVisible)
tasksAtTime(t) ==
  SelectSeq(FlatMapFind(coverage[t], data.tasks), taskVisible)

\* a Remove button for the id is on screen: the task label is rendered in
\* the slot equal to the task's start
RemoveShown(id) ==
  \E t \in SlotSet :
     LET shown == tasksAtTime(t) IN
     \E k \in 1..Len(shown) : shown[k].id = id /\ shown[k].start = t

\* the new task put in front of the list
addTaskPrepending(draft, id) ==
  /\ Idle /\ showModal
  /\ ~DayFull
  /\ IF Trim(draft.title) = <<>>
     THEN UNCHANGED vars
     ELSE /\ Commit([data EXCEPT !.tasks = <<normalized(draft, id)>> \o @])
          /\ showModal' = FALSE
          /\ switched' = NoSwitch
          /\ UNCHANGED clock
          /\ UNCHANGED <<date, loadPending, inlineEdit, priorityFilter>>

addTask(draft, id) ==
  /\ Idle /\ showModal
  /\ ~DayFull
  /\ IF Trim(draft.title) = <<>>
     THEN UNCHANGED vars
     ELSE /\ Commit([data EXCEPT !.tasks = Append(@, normalized(draft, id))])
          /\ showModal' = FALSE
          /\ switched' = NoSwitch
          /\ UNCHANGED clock
          /\ UNCHANGED <<date, loadPending, inlineEdit, priorityFilter>>

removeTask(id) ==
  /\ Idle /\ RemoveShown(id)
  /\ Commit([data EXCEPT !.tasks = SelectSeq(@, LAMBDA t : t.id # id)])
  /\ switched' = NoSwitch
  /\ UNCHANGED clock
  /\ UNCHANGED <<date, loadPending, uiVars>>

\* the day cleared whatever the answer to the confirmation
clearDayUnasked(confirmed) ==
  /\ Idle
  /\ Commit(EmptyDay)
  /\ switched' = NoSwitch
  /\ UNCHANGED clock
  /\ UNCHANGED <<date, loadPending, uiVars>>

clearDay(confirmed) ==
  /\ Idle
  /\ IF ~confirmed
     THEN UNCHANGED vars
     ELSE /\ Commit(EmptyDay)
          /\ switched' = NoSwitch
          /\ UNCHANGED clock
          /\ UNCHANGED <<date, loadPending, uiVars>>

noteVisible(note) == priorityFilter = "all" \/ note.priority = priorityFilter

\* data.notes.filter((n) => n.time === t && noteVisible(n))
notesAtTime(t) == SelectSeq(data.notes, LAMBDA n : n.time = t /\ noteVisible(n))

\* a Remove button for a note with the id is on screen
NoteShown(id) ==
  \E t \in SlotSet : \E k \in 1..Len(notesAtTime(t)) : notesAtTime(t)[k].id = id

\* the note stored without its time
addNoteUntimed(d, arg, id) ==
  IF Trim(arg.title) = <<>>
  THEN d
  ELSE [d EXCEPT !.notes =
          Append(@, [id |-> id, time |-> <<>>, title |-> Trim(arg.title),
                     priority |-> arg.priority])]

\* the data state that addNote({time, title, priority}) asks for
addNote(d, arg, id) ==
  IF Trim(arg.title) = <<>>
  THEN d
  ELSE [d EXCEPT !.notes =
          Append(@, [id |-> id, time |-> arg.time, title |-> Trim(arg.title),
                     priority |-> arg.priority])]

\* removeNote, from the Remove button of a note
removeNote(id) ==
  /\ Idle /\ ~showModal /\ NoteShown(id)
  /\ Commit([data EXCEPT !.notes = SelectSeq(@, LAMBDA n : n.id # id)])
  /\ switched' = NoSwitch
  /\ UNCHANGED clock
  /\ UNCHANGED <<date, loadPending, uiVars>>

\* setInlineEdit({ time: t, title: "", priority: "normal" })
FreshEdit(t) == [open |-> TRUE, time |-> t, title |-> <<>>, priority |-> "normal"]

\* the argument the inline editor hands to addNote
InlineNote ==
  [time |-> inlineEdit.time, title |-> Trim(inlineEdit.title),
   priority |-> OrElse(inlineEdit.priority, "normal")]

\* onClick of a slot row; a click on the editor's input or select bubbles
\* to the same handler
slotClick(t) ==
  /\ Idle /\ ~showModal
  /\ inlineEdit' = FreshEdit(t)
  /\ switched' = NoSwitch
  /\ UNCHANGED clock
  /\ UNCHANGED <<dayVars, memoVars, showModal, priorityFilter>>

\* onChange of the note title input
inlineTitleChange(title) ==
  /\ Idle /\ ~showModal /\ inlineEdit.open
  /\ inlineEdit' = [inlineEdit EXCEPT !.title = title]
  /\ switched' = NoSwitch
  /\ UNCHANGED clock
  /\ UNCHANGED <<dayVars, memoVars, showModal, priorityFilter>>

\* onChange of the note priority select
inlinePriorityChange(p) ==
  /\ Idle /\ ~showModal /\ inlineEdit.open
  /\ inlineEdit' = [inlineEdit EXCEPT !.priority = p]
  /\ switched' = NoSwitch
  /\ UNCHANGED clock
  /\ UNCHANGED <<dayVars, memoVars, showModal, priorityFilter>>

\* onKeyDown of the note title input, key Enter
inlineEnter(id) ==
  /\ Idle /\ ~showModal /\ inlineEdit.open
  /\ ~DayFull
  /\ IF Trim(inlineEdit.title) = <<>>
     THEN UNCHANGED vars
     ELSE /\ Commit(addNote(data, InlineNote, id))
          /\ inlineEdit' = NoEdit
          /\ switched' = NoSwitch
          /\ UNCHANGED clock
          /\ UNCHANGED <<date, loadPending, showModal, priorityFilter>>

\* onClick of the editor's Add button; the click then bubbles to the slot
\* row, whose handler opens a fresh editor
inlineAddClick(id) ==
  /\ Idle /\ ~showModal /\ inlineEdit.open
  /\ ~DayFull
  /\ inlineEdit' = FreshEdit(inlineEdit.time)
  /\ switched' = NoSwitch
  /\ UNCHANGED clock
  /\ IF Trim(inlineEdit.title) = <<>>
     THEN UNCHANGED <<dayVars, memoVars, showModal, priorityFilter>>
     ELSE /\ Commit(addNote(data, InlineNote, id))
          /\ UNCHANGED <<date, loadPending, showModal, priorityFilter>>

\* onKeyDown of the note title input, key Escape
inlineEscape ==
  /\ Idle /\ ~showModal /\ inlineEdit.open
  /\ inlineEdit' = NoEdit
  /\ switched' = NoSwitch
  /\ UNCHANGED clock
  /\ UNCHANGED <<dayVars, memoVars, showModal, priorityFilter>>

\* onClick of the editor's Cancel button, then of the slot row
inlineCancelClick ==
  /\ Idle /\ ~showModal /\ inlineEdit.open
  /\ inlineEdit' = FreshEdit(inlineEdit.time)
  /\ switched' = NoSwitch
  /\ UNCHANGED clock
  /\ UNCHANGED <<dayVars, memoVars, showModal, priorityFilter>>

\* the statistics taken over the tasks the filter p shows
setPriorityFilterFiltering(p) ==
  /\ Idle /\ ~showModal
  /\ priorityFilter' = p
  /\ stats' = statsRendered(SelectSeq(data.tasks, LAMBDA t : p = "all" \/ t.priority = p))
  /\ switched' = NoSwitch
  /\ UNCHANGED clock
  /\ UNCHANGED <<dayVars, coverage, showModal, inlineEdit>>

\* onClick of a priority filter chip; the memos depend on data.tasks only
setPriorityFilter(p) ==
  /\ Idle /\ ~showModal
  /\ priorityFilter' = p
  /\ switched' = NoSwitch
  /\ UNCHANGED clock
  /\ UNCHANGED <<dayVars, memoVars, showModal, inlineEdit>>

(***************************************************************************)
(* Inputs                                                                  *)
(***************************************************************************)
Ids == {"id1", "id2"}

t0000 == <<"0", "0", ":", "0", "0">>
t0900 == <<"0", "9", ":", "0", "0">>
t0930 == <<"0", "9", ":", "3", "0">>
t1000 == <<"1", "0", ":", "0", "0">>
t1030 == <<"1", "0", ":", "3", "0">>
t1200 == <<"1", "2", ":", "0", "0">>
t2330 == <<"2", "3", ":", "3", "0">>

\* what the time inputs of the modal can hold: a cleared input, times off
\* the half-hour grid and components out of range
DayTimes ==
  { <<>>,
    <<"0", "9", ":", "4", "5">>,
    <<"2", "5", ":", "7", "5">>,
    <<"-", "1", ":", "-", "5">> }

DayDrafts ==
  [title : {<<" ", "a">>}, description : {<<>>}, start : DayTimes, end : DayTimes,
   color : {""}, priority : {"urgent", ""}]
  \cup [title : {<<>>, <<" ">>}, description : {<<>>}, start : {t0900}, end : {t1000},
        color : {""}, priority : {"urgent"}]

(***************************************************************************)
(* Specifications                                                          *)
(***************************************************************************)
\* the component mounted and settled on a day with nothing stored
InitDay ==
  /\ date = Today
  /\ data = EmptyDay
  /\ pending = NoUpdate
  /\ loadPending = FALSE
  /\ savePending = FALSE
  /\ store = [k \in DateKeys |-> IF k = Today THEN JSONstringify(EmptyDay) ELSE NoItem]
  /\ crashed = FALSE
  /\ coverage = useCoverage(<<>>)
  /\ stats = statsRendered(<<>>)
  /\ showModal = FALSE
  /\ inlineEdit = NoEdit
  /\ priorityFilter = "all"
  /\ switched = NoSwitch
  /\ clock = StartClock

NextDay ==
  \/ OpenModal
  \/ CloseModal
  \/ \E draft \in DayDrafts, id \in Ids : addTask(draft, id)
  \/ \E id \in Ids : removeTask(id)
  \/ \E confirmed \in BOOLEAN : clearDay(confirmed)

SpecDay == InitDay /\ [][NextDay]_vars

\* a record as an earlier session left it in storage
StoredTask ==
  [id |-> "id1", title |-> <<"a">>, description |-> <<>>, start |-> t0900, end |-> t1000,
   color |-> DefaultColor, priority |-> "high"]
StoredNote == [id |-> "id2", time |-> t1200, title |-> <<"n">>, priority |-> "low"]
StoredDay == [tasks |-> <<StoredTask>>, notes |-> <<StoredNote>>]

\* what may be stored under a key when the component mounts
InitItems ==
  { NoItem, EmptyText, InvalidText,
    JsonText(JsonNull), JsonText(JsonNumber), JsonText(JsonObject),
    JsonText(EmptyDay), JsonText(StoredDay) }

Drafts ==
  [title : {<<"a", " ">>, <<" ">>}, description : {<<>>}, start : {t1000}, end : {t0930},
   color : {""}, priority : {"urgent"}]

\* the slots clicked, the note titles typed and the priorities selected
NoteSlots == {t0900, t2330}
NoteTitles == {<<" ", "n">>}
NotePriorities == {"low"}
NoteIds == Ids
Filters == {"all"} \cup PrioritySet

\* the component as first rendered, before its effects have run
Init ==
  /\ date = Today
  /\ data = EmptyDay
  /\ pending = NoUpdate
  /\ loadPending = TRUE
  /\ savePending = TRUE
  /\ store \in [DateKeys -> InitItems]
  /\ crashed = FALSE
  /\ coverage = useCoverage(<<>>)
  /\ stats = statsRendered(<<>>)
  /\ showModal = FALSE
  /\ inlineEdit = NoEdit
  /\ priorityFilter = "all"
  /\ switched = <<[from |-> Mount, record |-> EmptyDay, target |-> store[Today]]>>
  /\ clock = StartClock

Next ==
  \/ LoadEffect
  \/ SaveEffect
  \/ Render
  \/ \E k \in DateKeys : SetDate(k)
  \/ OpenModal
  \/ CloseModal
  \/ \E draft \in Drafts, id \in Ids : addTask(draft, id)
  \/ \E id \in Ids : removeTask(id)
  \/ \E confirmed \in BOOLEAN : clearDay(confirmed)

Spec == Init /\ [][Next]_vars

\* the component mounted and settled on an empty day, another day's record
\* being in storage
InitNotes ==
  /\ date = Today
  /\ data = EmptyDay
  /\ pending = NoUpdate
  /\ loadPending = FALSE
  /\ savePending = FALSE
  /\ store = [k \in DateKeys |-> JSONstringify(IF k = Today THEN EmptyDay ELSE StoredDay)]
  /\ crashed = FALSE
  /\ coverage = useCoverage(<<>>)
  /\ stats = statsRendered(<<>>)
  /\ showModal = FALSE
  /\ inlineEdit = NoEdit
  /\ priorityFilter = "all"
  /\ switched = NoSwitch
  /\ clock = StartClock

\* the handlers of one day: tasks, quick notes and the priority filter
NextNotes ==
  \/ OpenModal
  \/ CloseModal
  \/ \E draft \in Drafts, id \in Ids : addTask(draft, id)
  \/ \E id \in Ids : removeTask(id)
  \/ \E confirmed \in BOOLEAN : clearDay(confirmed)
  \/ \E t \in NoteSlots : slotClick(t)
  \/ \E title \in NoteTitles : inlineTitleChange(title)
  \/ \E p \in NotePriorities : inlinePriorityChange(p)
  \/ \E id \in NoteIds : inlineEnter(id)
  \/ \E id \in NoteIds : inlineAddClick(id)
  \/ inlineEscape
  \/ inlineCancelClick
  \/ \E id \in NoteIds : removeNote(id)
  \/ \E p \in Filters : setPriorityFilter(p)

SpecNotes == InitNotes /\ [][NextNotes]_vars

\* task lists as any variant of the planner may have stored them: times on
\* the half-hour grid, in either order
MaxStatTasks == 3

StatIntervals ==
  { <<t0900, t1000>>, <<t0930, t1030>>, <<t1200, t1200>>, <<t1000, t0900>>,
    <<t0000, t2330>>, <<t0900, t1200>> }

StatTasks ==
  { [id |-> tag[1], title |-> <<"a">>, description |-> <<>>, start |-> iv[1], end |-> iv[2],
     color |-> DefaultColor, priority |-> tag[2]] :
    iv \in StatIntervals, tag \in {<<"id1", "urgent">>, <<"id2", "normal">>} }

StatLists == UNION {[1..n -> StatTasks] : n \in 0..MaxStatTasks}

\* the component mounted on a day whose stored record the load effect has
\* just parsed
InitStats ==
  /\ date = Today
  /\ data = EmptyDay
  /\ \E tasks \in StatLists :
       /\ pending = <<[tasks |-> tasks, notes |-> <<>>]>>
       /\ store = [k \in DateKeys |->
                     IF k = Today THEN JsonText([tasks |-> tasks, notes |-> <<>>]) ELSE NoItem]
  /\ loadPending = FALSE
  /\ savePending = TRUE
  /\ crashed = FALSE
  /\ coverage = useCoverage(<<>>)
  /\ stats = statsRendered(<<>>)
  /\ showModal = FALSE
  /\ inlineEdit = NoEdit
  /\ priorityFilter = "all"
  /\ switched = NoSwitch
  /\ clock = StartClock

NextStats ==
  \/ SaveEffect
  \/ Render

SpecStats == InitStats /\ [][NextStats]_vars

\* ---------------------------------------------------------------------
\* The startup instant: the component is mounted at some instant of the
\* first or the second of January 2025 (UTC) by a user whose local time is
\* behind, at or ahead of UTC; the date state starts as dateKey(new Date()).

Offsets == {-300, 0, 360}
StartMinutes == {30, 330, 1200, 1410}
Clocks == [day : {1, 2}, minute : StartMinutes, offset : Offsets]

InitClock ==
  /\ clock \in Clocks
  /\ date = dateKey(clock)
  /\ data = EmptyDay
  /\ pending = NoUpdate
  /\ loadPending = TRUE
  /\ savePending = TRUE
  /\ store \in [DateKeys -> {NoItem, JsonText(StoredDay)}]
  /\ crashed = FALSE
  /\ coverage = useCoverage(<<>>)
  /\ stats = statsRendered(<<>>)
  /\ showModal = FALSE
  /\ inlineEdit = NoEdit
  /\ priorityFilter = "all"
  /\ switched = <<[from |-> Mount, record |-> EmptyDay, target |-> store[date]]>>

NextClock ==
  \/ LoadEffect
  \/ SaveEffect
  \/ Render
  \/ \E k \in DateKeys : SetDate(k)

SpecClock == InitClock /\ [][NextClock]_vars

\* ---------------------------------------------------------------------
\* The variant part_000 of the component. Its helpers, its useDayData and
\* its removeTask and clearDay are those of the main file; its addTask and
\* addNote differ. It renders no statistics, so stats is not read here.

\* the record the variant's addTask builds: the two clamped times as they
\* are, start first
normalized000(draft, id) ==
  [id |-> id,
   title |-> Trim(draft.title),
   description |-> Trim(draft.description),
   start |-> clampTimeToSlots(draft.start),
   end |-> clampTimeToSlots(draft.end),
   color |-> OrElse(draft.color, DefaultColor),
   priority |-> OrElse(draft.priority, "normal")]

\* if (!taskDraft.title) return;  the test is on the title as typed
addTask000(draft, id) ==
  /\ Idle /\ showModal
  /\ ~DayFull
  /\ IF draft.title = <<>>
     THEN UNCHANGED vars
     ELSE /\ Commit([data EXCEPT !.tasks = Append(@, normalized000(draft, id))])
          /\ showModal' = FALSE
          /\ switched' = NoSwitch
          /\ UNCHANGED clock
          /\ UNCHANGED <<date, loadPending, inlineEdit, priorityFilter>>

\* the data state the variant's addNote asks for: no test of the title,
\* which is stored as given
addNote000(d, arg, id) ==
  [d EXCEPT !.notes =
     Append(@, [id |-> id, time |-> arg.time, title |-> arg.title,
                priority |-> arg.priority])]

\* onKeyDown of the variant's note title input, key Enter: the caller
\* tests the trimmed title and passes it trimmed, with the priority as
\* selected
inlineEnter000(id) ==
  /\ Idle /\ ~showModal /\ inlineEdit.open
  /\ ~DayFull
  /\ IF Trim(inlineEdit.title) = <<>>
     THEN UNCHANGED vars
     ELSE /\ Commit(addNote000(data, [time |-> inlineEdit.time,
                                      title |-> Trim(inlineEdit.title),
                                      priority |-> inlineEdit.priority], id))
          /\ inlineEdit' = NoEdit
          /\ switched' = NoSwitch
          /\ UNCHANGED clock
          /\ UNCHANGED <<date, loadPending, showModal, priorityFilter>>

Drafts000 ==
  [title : {<<" ", "a">>, <<>>, <<" ">>}, description : {<<>>},
   start : {t0900, t1000}, end : {t0900, t1000},
   color : {""}, priority : {"urgent"}]

Next000 ==
  \/ OpenModal
  \/ CloseModal
  \/ \E draft \in Drafts000, id \in Ids : addTask000(draft, id)
  \/ \E id \in Ids : removeTask(id)
  \/ \E confirmed \in BOOLEAN : clearDay(confirmed)
  \/ \E t \in {t0900} : slotClick(t)
  \/ \E title \in {<<>>, <<" ">>, <<"n">>} : inlineTitleChange(title)
  \/ \E id \in Ids : inlineEnter000(id)
  \/ inlineEscape

Spec000 == InitDay /\ [][Next000]_vars

(***************************************************************************)
(* Properties                                                              *)
(***************************************************************************)
\* the draft that holds the given times
DraftOf(start, end) ==
  [title |-> <<"a">>, description |-> <<>>, start |-> start, end |-> end,
   color |-> "", priority |-> ""]

\* the task at position i was stored from a draft whose clamped start is
\* later than its clamped end
StoredSwapped(i) ==
  \E draft \in DayDrafts, id \in Ids :
     /\ data.tasks[i] = normalized(draft, id)
     /\ JsGt(toMinutes(clampTimeToSlots(draft.start)), toMinutes(clampTimeToSlots(draft.end)))

\* C1: every stored task has toMinutes(start) <= toMinutes(end), and a
\* draft whose clamped start is later than its clamped end is stored with
\* the two clamped times exchanged.
C1_StartNotAfterEnd ==
  /\ \A i \in 1..Len(data.tasks) :
        JsLe(toMinutes(data.tasks[i].start), toMinutes(data.tasks[i].end))
  /\ \A draft \in DayDrafts, id \in Ids :
        LET cs == clampTimeToSlots(draft.start)
            ce == clampTimeToSlots(draft.end)
        IN JsGt(toMinutes(cs), toMinutes(ce)) =>
             /\ normalized(draft, id).start = ce
             /\ normalized(draft, id).end = cs

C1_Witness ==
  \E i \in 1..Len(data.tasks) :
     StoredSwapped(i) /\ JsLt(toMinutes(data.tasks[i].start), toMinutes(data.tasks[i].end))

\* C2: the start and the end of every stored task are among the 48 slot
\* times, whatever hour and minute the draft held.
C2_SlotAligned ==
  \A i \in 1..Len(data.tasks) :
     data.tasks[i].start \in SlotSet /\ data.tasks[i].end \in SlotSet

\* a task stored from a draft with an hour above 23 and one below 0
C2_Witness ==
  \E i \in 1..Len(data.tasks), id \in Ids, p \in {"urgent", ""} :
     /\ data.tasks[i] =
          normalized([DraftOf(<<"2", "5", ":", "7", "5">>, <<"-", "1", ":", "-", "5">>)
                        EXCEPT !.priority = p], id)
     /\ data.tasks[i].start = t0000 /\ data.tasks[i].end = t2330

\* C5: scheduledMin + freeMin = 1440, 0 <= scheduledMin <= 1440 and
\* freeMin = max(0, 1440 - scheduledMin).
C5_FreeComplement ==
  /\ stats.scheduledMin + stats.freeMin = 1440
  /\ stats.scheduledMin >= 0 /\ stats.scheduledMin <= 1440
  /\ stats.freeMin = Max(0, 1440 - stats.scheduledMin)

\* two stored tasks that each take the whole countable day
C5_Witness ==
  /\ Len(data.tasks) = 2
  /\ \A i \in 1..2 : data.tasks[i].start = t0000 /\ data.tasks[i].end = t2330
  /\ stats.scheduledMin = 1410 /\ stats.freeMin = 30

\* C9: the times of a stored task, given to addTask again as the draft's
\* start and end, are stored unchanged.
C9_NormalizeIdempotent ==
  \A i \in 1..Len(data.tasks), id \in Ids :
     LET again == normalized(DraftOf(data.tasks[i].start, data.tasks[i].end), id)
     IN again.start = data.tasks[i].start /\ again.end = data.tasks[i].end

\* a stored task whose times are not those typed: 09:45 was clamped
C9_Witness ==
  \E i \in 1..Len(data.tasks) :
     /\ data.tasks[i].end = t0930
     /\ \E id \in Ids : data.tasks[i] = normalized([DraftOf(<<>>, <<"0", "9", ":", "4", "5">>)
                                                      EXCEPT !.priority = "urgent"], id)

\* start and end of a slot-aligned task, in minutes
StartMin(t) == Val(toMinutes(t.start))
EndMin(t) == Val(toMinutes(t.end))

\* the task has the slot between its start and its end, both included
CoversSlot(t, slot) ==
  StartMin(t) <= Val(toMinutes(slot)) /\ Val(toMinutes(slot)) <= EndMin(t)

\* the positions of the tasks that cover the slot
Covering(tasks, slot) == {j \in 1..Len(tasks) : CoversSlot(tasks[j], slot)}

\* the slots that list the id
ListedUnder(id) == {slot \in SlotSet : \E k \in 1..Len(coverage[slot]) : coverage[slot][k] = id}

\* C3: the coverage index lists under each slot the ids of exactly the
\* tasks with toMinutes(start) <= toMinutes(slot) <= toMinutes(end), in the
\* order of the task list; a lone task 09:00-10:00 is listed under 09:00,
\* 09:30 and 10:00 and under no other slot.
C3_CoverageInclusive ==
  /\ \A slot \in SlotSet :
        LET on == Covering(data.tasks, slot) IN
        /\ Len(coverage[slot]) = Cardinality(on)
        /\ \A j \in on :
              coverage[slot][Cardinality({i \in on : i <= j})] = data.tasks[j].id
  /\ (Len(data.tasks) = 1 /\ data.tasks[1].start = t0900 /\ data.tasks[1].end = t1000)
        => ListedUnder(data.tasks[1].id) = {t0900, t0930, t1000}

\* the lone task 09:00-10:00 rendered
C3_Witness ==
  /\ Len(data.tasks) = 1 /\ data.tasks[1].start = t0900 /\ data.tasks[1].end = t1000
  /\ coverage[t1000] = <<data.tasks[1].id>>

\* the slot indexes floor(m / 30) of the minutes m in [start, end) of the
\* tasks that pass the test
SlotsTouched(tasks, Test(_)) ==
  {k \in 0..(NumSlots - 1) :
     \E j \in 1..Len(tasks) :
        /\ Test(tasks[j])
        /\ StartMin(tasks[j]) < EndMin(tasks[j])
        /\ StartMin(tasks[j]) <= 30 * k + 29
        /\ 30 * k <= EndMin(tasks[j]) - 1}

AnyTask(t) == TRUE

\* the two tasks 09:00-10:00 and 09:30-10:30, in this order
OverlapExample ==
  /\ Len(data.tasks) = 2
  /\ data.tasks[1].start = t0900 /\ data.tasks[1].end = t1000
  /\ data.tasks[2].start = t0930 /\ data.tasks[2].end = t1030

\* C4: scheduledMin is 30 times the number of distinct slot indexes met by
\* the half-open ranges [start, end) of the tasks; 09:00-10:00 with
\* 09:30-10:30 gives 90.
C4_ScheduledDeoverlapped ==
  /\ stats.scheduledMin = 30 * Cardinality(SlotsTouched(data.tasks, AnyTask))
  /\ OverlapExample => stats.scheduledMin = 90

C4_Witness == OverlapExample /\ stats.scheduledMin = 90

\* C6: byPriority[p] is the same count over the tasks of priority p only,
\* for each of the four priorities.
C6_ByPriority ==
  /\ DOMAIN stats.byPriority = {"urgent", "high", "normal", "low"}
  /\ \A p \in {"urgent", "high", "normal", "low"} :
        stats.byPriority[p] =
          30 * Cardinality(SlotsTouched(data.tasks, LAMBDA t : t.priority = p))

\* two tasks of different priorities share a slot and the entries add up to
\* more than scheduledMin
C6_Witness ==
  /\ OverlapExample
  /\ data.tasks[1].priority = "urgent" /\ data.tasks[2].priority = "normal"
  /\ stats.byPriority["urgent"] = 60 /\ stats.byPriority["normal"] = 60
  /\ stats.byPriority["urgent"] + stats.byPriority["high"] + stats.byPriority["normal"]
       + stats.byPriority["low"] > stats.scheduledMin

\* the task list without position j
Without(tasks, j) == SubSeq(tasks, 1, j - 1) \o SubSeq(tasks, j + 1, Len(tasks))

\* C7: a task with start = end has 0 perTask minutes, leaves scheduledMin
\* and byPriority as they are without it, and adds its id to the coverage
\* of the slot equal to its start and of no other slot.
C7_ZeroLength ==
  /\ \A k \in 1..Len(stats.perTask) :
        stats.perTask[k].start = stats.perTask[k].end => stats.perTask[k].minutes = Num(0)
  /\ \A j \in 1..Len(data.tasks) :
        LET t == data.tasks[j]
            rest == Without(data.tasks, j)
        IN t.start = t.end =>
             /\ \E k \in 1..Len(stats.perTask) :
                   /\ stats.perTask[k].id = t.id
                   /\ stats.perTask[k].start = t.start /\ stats.perTask[k].end = t.end
             /\ stats.scheduledMin = 30 * Cardinality(SlotsTouched(rest, AnyTask))
             /\ \A p \in PrioritySet :
                   stats.byPriority[p] =
                     30 * Cardinality(SlotsTouched(rest, LAMBDA u : u.priority = p))
             /\ \A slot \in SlotSet :
                   Cardinality({k \in 1..Len(coverage[slot]) : coverage[slot][k] = t.id})
                     = Cardinality({i \in Covering(rest, slot) : rest[i].id = t.id})
                       + (IF slot = t.start THEN 1 ELSE 0)

\* the task 12:00-12:00 stored next to a task that takes time
C7_Witness ==
  /\ Len(data.tasks) = 2
  /\ data.tasks[1].start = t0900 /\ data.tasks[1].end = t1000
  /\ data.tasks[2].start = t1200 /\ data.tasks[2].end = t1200
  /\ coverage[t1200] = <<data.tasks[2].id>>
  /\ stats.scheduledMin = 60

\* the place of task j when the tasks are ordered by start, equal starts in
\* list order
Rank(tasks, j) ==
  Cardinality({i \in 1..Len(tasks) :
                 \/ StartMin(tasks[i]) < StartMin(tasks[j])
                 \/ StartMin(tasks[i]) = StartMin(tasks[j]) /\ i <= j})

\* C8: perTask has one entry per task, with minutes = max(0, end - start),
\* and the card lists the entries by start ascending, equal starts in the
\* order of the task list.
C8_PerTaskOrdered ==
  /\ Len(stats.perTask) = Len(data.tasks)
  /\ \A j \in 1..Len(data.tasks) :
        LET t == data.tasks[j] IN
        stats.perTask[Rank(data.tasks, j)] =
          [id |-> t.id, title |-> t.title, priority |-> t.priority, color |-> t.color,
           start |-> t.start, end |-> t.end,
           minutes |-> Num(Max(0, EndMin(t) - StartMin(t)))]

\* two tasks with the same start after a later one: the card shows them
\* first, in the order they were stored
C8_Witness ==
  /\ Len(data.tasks) = 3
  /\ data.tasks[1].start = t0930
  /\ data.tasks[2].start = t0900 /\ data.tasks[2].end = t1200
  /\ data.tasks[3].start = t0900 /\ data.tasks[3].end = t1000
  /\ stats.perTask[1].end = t1200 /\ stats.perTask[2].end = t1000
  /\ stats.perTask[3].start = t0930

\* the stored text is not the JSON text of a record with tasks and notes
NotADayRecord(raw) == ~(raw.kind = "json" /\ IsDayShape(raw.value))

\* C10: when the load effect reads a payload that is not a day record, the
\* record it puts in memory is the empty record, and no render fails.
C10_MalformedLoadsEmpty ==
  [][/\ (loadPending /\ ~loadPending' /\ NotADayRecord(store[date]))
          => pending' = <<EmptyDay>>
     /\ ~crashed']_vars

\* the load and save effects of the last mount or date change have run
Settled == Idle /\ switched # NoSwitch

\* the item the key held when it was entered
Entered == switched[1].target

\* C11: once the effects of a mount or date change have run, a key that
\* held a well-formed record still holds that record, field for field, and
\* the record in memory is the same one; a key that held nothing has given
\* the empty record.
C11_LoadSaveRoundTrip ==
  Settled =>
    /\ ~NotADayRecord(Entered) =>
         /\ data = Entered.value
         /\ store[date] = Entered
         /\ store[date].value.tasks = Entered.value.tasks
         /\ store[date].value.notes = Entered.value.notes
    /\ Entered = NoItem => data = EmptyDay /\ store[date] = JsonText(EmptyDay)

\* a stored day with a task and a note has been loaded and saved again
C11_Witness ==
  /\ Settled
  /\ Entered = JsonText(StoredDay)
  /\ data = StoredDay
  /\ store[date] = JsonText(StoredDay)

\* C12: once the effects of a change from date k1 to date k2 have run, the
\* record in memory is the one that was stored under k2 (the empty record
\* if nothing was), whatever k1's record was, and k1's record in memory at
\* the change is what is stored under k1.
C12_DateSwitchReloads ==
  (Settled /\ switched[1].from \in DateKeys) =>
    /\ ~NotADayRecord(Entered) => data = Entered.value
    /\ Entered = NoItem => data = EmptyDay
    /\ store[switched[1].from] = JsonText(switched[1].record)

\* a day with a task was left for a day with nothing stored
C12_Witness ==
  /\ Settled
  /\ switched[1].from \in DateKeys
  /\ switched[1].record.tasks # <<>>
  /\ Entered = NoItem
  /\ data = EmptyDay
  /\ store[switched[1].from].value.tasks = switched[1].record.tasks

\* C13: a handler that changes the tasks or the notes leaves, under the
\* selected date, exactly the record now in memory, and leaves what is
\* stored under every other date as it was.
C13_SaveOverwrites ==
  [][data' # data =>
       /\ store'[date] = JsonText(data')
       /\ \A k \in DateKeys \ {date} : store'[k] = store[k]]_vars

\* a task and a note are in memory and stored, the other day is untouched
C13_Witness ==
  /\ data.tasks # <<>> /\ data.notes # <<>>
  /\ store[date] = JsonText(data)
  /\ \A k \in DateKeys \ {date} : store[k] = JsonText(StoredDay)

\* C14: a change of the priority filter changes neither the record in
\* memory, nor what is stored, nor any of the statistics, and the
\* statistics are those of all stored tasks under every filter.
C14_FilterLeavesStats ==
  /\ [](stats = statsRendered(data.tasks))
  /\ [][priorityFilter' # priorityFilter =>
          data' = data /\ store' = store /\ stats' = stats]_vars

\* the filter hides the one stored task and the statistics still count it
C14_Witness ==
  /\ priorityFilter = "low"
  /\ Len(data.tasks) = 1 /\ data.tasks[1].priority = "urgent"
  /\ stats.scheduledMin = 30 /\ stats.byPriority.urgent = 30
  /\ Len(stats.perTask) = 1

\* C15: with no task stored, scheduledMin is 0, freeMin is 1440, every
\* byPriority entry is 0, perTask is empty and no slot lists a task; and a
\* clearDay that is not confirmed cannot change the tasks or the notes.
C15_EmptyDayZero ==
  /\ (IsDayShape(data) /\ data.tasks = <<>>) =>
       /\ stats.scheduledMin = 0
       /\ stats.freeMin = 1440
       /\ \A p \in PrioritySet : stats.byPriority[p] = 0
       /\ stats.perTask = <<>>
       /\ \A slot \in SlotSet : coverage[slot] = <<>>
  /\ ~ENABLED (clearDay(FALSE) /\ data' # data)

\* no task is stored while a note is, the filter is not "all", and the
\* statistics are zero
C15_Witness ==
  /\ data.tasks = <<>> /\ data.notes # <<>>
  /\ priorityFilter # "all"
  /\ stats.scheduledMin = 0 /\ stats.freeMin = 1440 /\ stats.perTask = <<>>
  /\ coverage[t0930] = <<>>

\* t is HH:MM with two digits each, the hour in 0..23, the minute in 0..59
WellFormedHM(t) ==
  /\ Len(t) = 5 /\ t[3] = ":"
  /\ \A i \in {1, 2, 4, 5} : IsDigit(t[i])
  /\ DigitVal(t[1]) * 10 + DigitVal(t[2]) <= 23
  /\ DigitVal(t[4]) * 10 + DigitVal(t[5]) <= 59

\* x is a value of the JavaScript number type
IsJsNumber(x) == IsNaN(x) \/ (Len(x) = 1 /\ Val(x) \in Int)

\* the time texts a draft or a stored task can hold
TimeTexts ==
  DayTimes \cup {t0900, t2330}
    \cup {data.tasks[i].start : i \in 1..Len(data.tasks)}
    \cup {data.tasks[i].end : i \in 1..Len(data.tasks)}

\* C16: toMinutes gives hour*60+minute for a well-formed HH:MM text and no
\* number at all for any other text.
C16_ToMinutesRejects ==
  \A t \in TimeTexts :
     IF WellFormedHM(t)
     THEN toMinutes(t) =
            Num((DigitVal(t[1]) * 10 + DigitVal(t[2])) * 60
                  + DigitVal(t[4]) * 10 + DigitVal(t[5]))
     ELSE ~IsJsNumber(toMinutes(t))

\* the text of a time with hour h and minute m, in range or not
HMText(h, m) == PadStart2(String(Num(h))) \o Colon \o PadStart2(String(Num(m)))

HourCases == {-1, 0, 23, 25}
MinuteCases == {-5, 29, 30, 75}

\* C17: for a text with integer hour h and minute m, clampTimeToSlots
\* gives the slot with hour min(23, max(0, h)) and minute 00 if m < 30,
\* else 30; the result is a slot time, so never later than 23:30, and so
\* is every time stored from a draft.
C17_ClampNeverRejects ==
  /\ \A h \in HourCases, m \in MinuteCases :
        LET r == clampTimeToSlots(HMText(h, m)) IN
        /\ r = SLOT_TIMES[2 * Min(23, Max(0, h)) + (IF m < 30 THEN 1 ELSE 2)]
        /\ r \in SlotSet
        /\ JsLe(toMinutes(r), Num(23 * 60 + 30))
  /\ \A i \in 1..Len(data.tasks) :
        /\ JsLe(toMinutes(data.tasks[i].start), Num(23 * 60 + 30))
        /\ JsLe(toMinutes(data.tasks[i].end), Num(23 * 60 + 30))

\* a task stored from a draft that starts at 09:45 and ends at 25:75
C17_Witness ==
  \E i \in 1..Len(data.tasks) :
     /\ data.tasks[i].start = clampTimeToSlots(HMText(9, 45))
     /\ data.tasks[i].end = clampTimeToSlots(HMText(25, 75))
     /\ data.tasks[i].start = t0930 /\ data.tasks[i].end = t2330

\* the step is one of the two handlers that store a note
NoteAdded == \E id \in NoteIds : inlineEnter(id) \/ inlineAddClick(id)

NoteSlotsShown(i) ==
  {t \in SlotSet : \E k \in 1..Len(notesAtTime(t)) : notesAtTime(t)[k] = data.notes[i]}

\* C19: every stored note has one of the 48 slot times as its time and,
\* under the filter "all", is shown under that slot and no other; storing
\* or removing a note leaves the tasks as they were, and addTask and
\* removeTask leave the notes as they were.
C19_NoteInOneSlot ==
  /\ [](\A i \in 1..Len(data.notes) :
          /\ data.notes[i].time \in SlotSet
          /\ priorityFilter = "all" => NoteSlotsShown(i) = {data.notes[i].time})
  /\ [][/\ (NoteAdded \/ \E id \in NoteIds : removeNote(id)) => data'.tasks = data.tasks
        /\ (\E draft \in Drafts, id \in Ids : addTask(draft, id)) => data'.notes = data.notes
        /\ (\E id \in Ids : removeTask(id)) => data'.notes = data.notes]_vars

\* a note of low priority at 23:30 stored next to a task
C19_Witness ==
  /\ priorityFilter = "all"
  /\ Len(data.notes) = 1 /\ data.notes[1].time = t2330 /\ data.notes[1].priority = "low"
  /\ NoteSlotsShown(1) = {t2330}
  /\ data.tasks # <<>>

\* C20: an id is listed under a slot only if a stored task with that id
\* covers the slot; after removeTask(id) no slot lists the id; after
\* addTask the new id is listed under every slot from the start to the end
\* of the new task, both included.
C20_CoverageFollowsTasks ==
  /\ [](IsDayShape(data) =>
          \A slot \in SlotSet : \A k \in 1..Len(coverage[slot]) :
             \E j \in 1..Len(data.tasks) :
                data.tasks[j].id = coverage[slot][k] /\ CoversSlot(data.tasks[j], slot))
  /\ [][/\ \A id \in Ids : removeTask(id) => ListedUnder(id)' = {}
        /\ \A draft \in Drafts, id \in Ids :
             (addTask(draft, id) /\ data' # data) =>
               LET new == data'.tasks[Len(data'.tasks)] IN
               \A slot \in SlotSet :
                  CoversSlot(new, slot) => slot \in ListedUnder(id)']_vars

\* a stored task 09:30-10:00 listed under its two slots and no other
C20_Witness ==
  /\ Len(data.tasks) = 1
  /\ data.tasks[1].start = t0930 /\ data.tasks[1].end = t1000
  /\ ListedUnder(data.tasks[1].id) = {t0930, t1000}

\* ---------------------------------------------------------------------
\* the calendar date that the user's local clock shows at the instant
LocalDay(c) == c.day + ((c.minute + c.offset) \div 1440)
LocalDate(c) == DayTexts[LocalDay(c) + 1]

\* the planner still shows the date it was mounted with
AtStartup == switched # NoSwitch /\ switched[1].from = Mount

\* C21: for every instant and every local UTC offset, the date the planner
\* starts with, dateKey(new Date()), is the calendar date of that instant
\* on the user's local clock, not the date in a fixed time zone.
C21_DateKeyIsLocalDate ==
  AtStartup => date = LocalDate(clock)

\* C22: SLOT_TIMES is a fixed sequence of exactly 48 distinct times in
\* strictly increasing order, from 00:00 to 23:30, the i-th of them (from
\* 0) being 30*i minutes after midnight; every render indexes its coverage
\* by exactly these times.
C22_SlotTimes ==
  /\ Len(SLOT_TIMES) = 48
  /\ SLOT_TIMES[1] = <<"0", "0", ":", "0", "0">>
  /\ SLOT_TIMES[48] = <<"2", "3", ":", "3", "0">>
  /\ \A i \in 1..48 : toMinutes(SLOT_TIMES[i]) = Num(30 * (i - 1))
  /\ \A i \in 1..47 : JsLt(toMinutes(SLOT_TIMES[i]), toMinutes(SLOT_TIMES[i + 1]))
  /\ Cardinality({SLOT_TIMES[i] : i \in 1..48}) = 48
  /\ DOMAIN coverage = {SLOT_TIMES[i] : i \in 1..48}
  /\ Cardinality(DOMAIN coverage) = 48

\* a task from the first to the last slot is listed under all 48 of them
C22_Witness ==
  /\ Len(data.tasks) = 1
  /\ data.tasks[1].start = SLOT_TIMES[1] /\ data.tasks[1].end = SLOT_TIMES[48]
  /\ \A i \in 1..48 : coverage[SLOT_TIMES[i]] = <<data.tasks[1].id>>

\* ---------------------------------------------------------------------
\* C23: in the variant part_000 too, every task that addTask stores has
\* toMinutes(start) <= toMinutes(end): a draft whose clamped start is later
\* than its clamped end is stored with the two times exchanged.
C23_VariantStartNotAfterEnd ==
  [][\A draft \in Drafts000, id \in Ids :
       (addTask000(draft, id) /\ data' # data) =>
          LET new == data'.tasks[Len(data'.tasks)]
              cs == clampTimeToSlots(draft.start)
              ce == clampTimeToSlots(draft.end)
          IN /\ JsLe(toMinutes(new.start), toMinutes(new.end))
             /\ JsGt(toMinutes(cs), toMinutes(ce)) => new.start = ce /\ new.end = cs]_vars

\* ---------------------------------------------------------------------
\* C24: from the mount or the date change that enters key k until the next
\* user action, whatever effects have run so far, a day record that was
\* stored under k is still the record stored under k: it is never replaced
\* by the initial empty record or by the record of the date left.
C24_NoStaleOverwrite ==
  (switched # NoSwitch /\ ~NotADayRecord(Entered)) => store[date] = Entered

\* ---------------------------------------------------------------------
\* C25: the statistics never count the last slot, 23:30: scheduledMin is at
\* most 1410 and freeMin at least 30 in every state, also when the coverage
\* of 23:30 lists a task.
C25_LastSlotNotCounted ==
  /\ stats.scheduledMin <= 1410
  /\ stats.freeMin >= 30
  /\ \A p \in DOMAIN stats.byPriority : stats.byPriority[p] <= 1410
  /\ coverage[<<"2", "3", ":", "3", "0">>] # <<>> =>
        stats.scheduledMin + stats.freeMin = 1440

\* a lone task from 00:00 to 23:30: the last slot lists it and 1410 minutes
\* are scheduled
C25_Witness ==
  /\ Len(data.tasks) = 1
  /\ data.tasks[1].start = t0000 /\ data.tasks[1].end = t2330
  /\ coverage[t2330] = <<data.tasks[1].id>>
  /\ stats.scheduledMin = 1410 /\ stats.freeMin = 30

\* ---------------------------------------------------------------------
\* no two stored tasks have the same id
UniqueIds ==
  \A i, j \in 1..Len(data.tasks) : data.tasks[i].id = data.tasks[j].id => i = j

\* the slots that list the task, without the slot of its end
ContributedSlots(t) == ListedUnder(t.id) \ {t.end}

\* C26: every stored task is listed under as many slots as its perTask
\* minutes divided by 30, plus 1; the slots counted in scheduledMin are
\* exactly the slots that list some task other than as its end slot; so
\* no more slots are counted than have a non-empty coverage.
C26_CoverageAndSchedule ==
  /\ UniqueIds =>
       /\ \A j \in 1..Len(data.tasks) :
             \E k \in 1..Len(stats.perTask) :
                /\ stats.perTask[k].id = data.tasks[j].id
                /\ Val(stats.perTask[k].minutes) % 30 = 0
                /\ Cardinality(ListedUnder(data.tasks[j].id)) =
                     Val(stats.perTask[k].minutes) \div 30 + 1
       /\ stats.scheduledMin =
            30 * Cardinality(UNION {ContributedSlots(data.tasks[j]) : j \in 1..Len(data.tasks)})
  /\ stats.scheduledMin <= 30 * Cardinality({slot \in SlotSet : coverage[slot] # <<>>})

\* a task 00:00-09:30 next to a task that starts and ends at 23:30: 20 and
\* 1 slots list them, 19 slots are counted
C26_Witness ==
  /\ Len(data.tasks) = 2 /\ UniqueIds
  /\ data.tasks[1].start = t0000 /\ data.tasks[1].end = t0930
  /\ data.tasks[2].start = t2330 /\ data.tasks[2].end = t2330
  /\ Cardinality(ListedUnder(data.tasks[1].id)) = 20
  /\ ListedUnder(data.tasks[2].id) = {t2330}
  /\ stats.scheduledMin = 570

\* ---------------------------------------------------------------------
\* the sum of the minutes of the entries of a perTask list
RECURSIVE SumMinutes(_)
SumMinutes(list) ==
  IF list = <<>> THEN 0 ELSE Val(Head(list).minutes) + SumMinutes(Tail(list))

SumByPriority ==
  stats.byPriority["urgent"] + stats.byPriority["high"] +
  stats.byPriority["normal"] + stats.byPriority["low"]

\* C27: in every state reached by adding and removing tasks, each
\* byPriority[p] <= scheduledMin <= the sum of the four byPriority entries
\* <= the sum of the perTask minutes, and all these values are multiples
\* of 30.
C27_StatsOrdered ==
  /\ \A p \in {"urgent", "high", "normal", "low"} :
        /\ stats.byPriority[p] <= stats.scheduledMin
        /\ stats.byPriority[p] % 30 = 0
  /\ stats.scheduledMin <= SumByPriority
  /\ SumByPriority <= SumMinutes(stats.perTask)
  /\ stats.scheduledMin % 30 = 0
  /\ \A k \in 1..Len(stats.perTask) : Val(stats.perTask[k].minutes) % 30 = 0

\* an urgent task 00:00-23:30 and a normal one 09:30-23:30: 1410 minutes
\* scheduled, 1410 + 840 by priority and per task
C27_Witness ==
  /\ Len(data.tasks) = 2
  /\ data.tasks[1].priority = "urgent" /\ data.tasks[2].priority = "normal"
  /\ stats.byPriority["normal"] = 840
  /\ stats.scheduledMin = 1410
  /\ SumByPriority = 2250
  /\ SumMinutes(stats.perTask) = 2250

\* ---------------------------------------------------------------------
\* the list with the tasks at positions i and j exchanged
Swapped(tasks, i, j) ==
  [k \in 1..Len(tasks) |-> IF k = i THEN tasks[j] ELSE IF k = j THEN tasks[i] ELSE tasks[k]]

\* another task with the start, the end and the priority of the one at j
TwinOf(tasks, j, id) == [tasks[j] EXCEPT !.id = id, !.title = <<"b">>]

\* the memo gives for the list the three values now on screen
SameTotals(tasks) ==
  LET st == statsMemo(tasks) IN
  /\ st.scheduledMin = stats.scheduledMin
  /\ st.freeMin = stats.freeMin
  /\ st.byPriority = stats.byPriority

\* C28: scheduledMin, freeMin and byPriority depend only on the set of
\* (start, end, priority) triples of the tasks: exchanging any two tasks of
\* the list (and so any reordering), reversing it, or adding at either end
\* a task with the start, end and priority of a task of the list, leaves
\* the three values as they are.
C28_TotalsOfTripleSet ==
  IsDayShape(data) =>
    LET tasks == data.tasks
        n == Len(tasks)
    IN /\ SameTotals(tasks)
       /\ \A i, j \in 1..n : i < j => SameTotals(Swapped(tasks, i, j))
       /\ SameTotals([k \in 1..n |-> tasks[n + 1 - k]])
       /\ \A j \in 1..n, id \in Ids :
             /\ SameTotals(Append(tasks, TwinOf(tasks, j, id)))
             /\ SameTotals(<<TwinOf(tasks, j, id)>> \o tasks)

\* three tasks, the first and the last with the same times and priority,
\* around an overlapping one of another priority
C28_Witness ==
  /\ Len(data.tasks) = 3
  /\ data.tasks[1].start = t0900 /\ data.tasks[1].end = t1000
  /\ data.tasks[1].priority = "urgent"
  /\ data.tasks[2].start = t0930 /\ data.tasks[2].end = t1030
  /\ data.tasks[2].priority = "normal"
  /\ data.tasks[3].start = t0900 /\ data.tasks[3].end = t1000
  /\ data.tasks[3].priority = "urgent"
  /\ stats.scheduledMin = 90 /\ stats.freeMin = 1350
  /\ stats.byPriority["urgent"] = 60 /\ stats.byPriority["normal"] = 60

\* ---------------------------------------------------------------------
\* C29: dismissing the inline note editor closes it: after a click on
\* Cancel, after Escape, and after a click on Add with a non-blank title,
\* which appends exactly one note at the slot of the editor, inlineEdit is
\* null, the click having also gone through the slot's onClick.
C29_DismissCloses ==
  [][/\ inlineCancelClick => inlineEdit' = NoEdit
     /\ inlineEscape => inlineEdit' = NoEdit
     /\ \A id \in NoteIds :
          (inlineAddClick(id) /\ Trim(inlineEdit.title) # <<>>) =>
             /\ inlineEdit' = NoEdit
             /\ Len(data'.notes) = Len(data.notes) + 1
             /\ data'.notes[Len(data'.notes)].time = inlineEdit.time]_vars

\* ---------------------------------------------------------------------
\* C30: in the variant part_000 as in the main file, addTask with a title
\* that is empty or only whitespace stores no task and leaves the tasks,
\* the notes and the open modal as they are, and an Enter in the inline
\* editor with a blank title stores no note; so no stored task or note
\* has a title that is empty after trimming.
C30_BlankTitleStoresNothing ==
  /\ [](IsDayShape(data) =>
          /\ \A i \in 1..Len(data.tasks) : Trim(data.tasks[i].title) # <<>>
          /\ \A i \in 1..Len(data.notes) : Trim(data.notes[i].title) # <<>>)
  /\ [][/\ \A draft \in Drafts000, id \in Ids :
             (addTask000(draft, id) /\ Trim(draft.title) = <<>>) =>
                /\ data' = data
                /\ showModal' = showModal
        /\ \A id \in Ids :
             (inlineEnter000(id) /\ Trim(inlineEdit.title) = <<>>) => data' = data]_vars
====
